---- MODULE Spec2Model ----
(***************************************************************************)
(* Model of AudioResampler (src/src/index.ts): the streaming chunk         *)
(* accumulation and re-segmentation of 16-bit mono PCM between a provider  *)
(* sample rate and the fixed 8000 Hz client rate.                          *)
(*                                                                         *)
(* A Buffer is a sequence of bytes (0..255).  An Int16Array is a sequence  *)
(* of integers in -32768..32767.  A Float32Array is a sequence of          *)
(* integers counting units of 1/(2*Scale) = 2^-16, so that x / 32768 is    *)
(* the integer 2*x and fractional scaled samples are representable.        *)
(* `Buffer | null` is a sequence of length at most one: Null or Some(b).   *)
(* inflight holds the calls suspended at an await, each with its locals;   *)
(* it stays empty where calls are made one after the other.                *)
(*                                                                         *)
(* Input buffers are 2-byte aligned (even byteOffset), as Node allocates   *)
(* them; their content is a labelling of the stream: the k-th 16-bit       *)
(* sample fed in a direction has value k, so that a lost, duplicated or    *)
(* reordered byte is visible.  The external converter is either the        *)
(* identity or an opaque function whose output length follows from its     *)
(* input length and whose j-th output sample has value -j; its simple()    *)
(* may throw, its create() always resolves.                                *)
(***************************************************************************)
EXTENDS Integers, Sequences, FiniteSets, TLC

VARIABLES providerSampleRate, converterKind,
          downResampler, upResampler, downsampleBuffer, isInitialized,
          inflight, history

vars == <<providerSampleRate, converterKind,
          downResampler, upResampler, downsampleBuffer, isInitialized,
          inflight, history>>

----------------------------------------------------------------------------
(* Bounds of the model *)

MaxCalls == 3
MaxInitializeCalls == 2
MaxDownsampleCalls == 3
MaxUpsampleCalls == 1
MaxFlushCalls == 2
MaxDestroyCalls == 1
MaxFailures == 1
MaxCodecLen == 2
MaxSizesRate == 250
MaxAsyncCalls == 3
MaxPasses == 2

(* Program constants *)

ClientSampleRate == 8000
Scale == 32768

ProviderRates == {100, 8000}
ConverterKinds == {"identity", "long"}

\* The instances checked.  A pass converts 20 ms of audio at every rate, so
\* the "long" converter returns the same 321 samples per pass at any rate
\* and is checked at one.
Configurations ==
    {c \in ProviderRates \X ConverterKinds :
        c[2] = "long" => c[1] = 100}

NullHandle == 0
Null == <<>>
Some(b) == <<b>>

NoError == "none"
ConversionFailure == "ConversionFailure"
TypeError == "TypeError"

----------------------------------------------------------------------------
(* Sequence helpers *)

RECURSIVE Flatten(_)
Flatten(ss) == IF ss = <<>> THEN <<>> ELSE Head(ss) \o Flatten(Tail(ss))

Zeros(n) == [i \in 1..n |-> 0]

----------------------------------------------------------------------------
(* Typed-array views *)

ToInt16(u) == IF u >= Scale THEN u - 2 * Scale ELSE u

\* new Int16Array(buf.buffer, buf.byteOffset, n): n is truncated to an
\* integer by the constructor; little-endian.
Int16View(buf, byteLength) ==
    [i \in 1..(byteLength \div 2) |-> ToInt16(buf[2 * i - 1] + 256 * buf[2 * i])]

\* Buffer.from(int16Samples.buffer): the samples' bytes, little-endian.
BufferFrom(int16Samples) ==
    [p \in 1..(2 * Len(int16Samples)) |->
        LET s == int16Samples[(p + 1) \div 2]
            u == IF s < 0 THEN s + 2 * Scale ELSE s
        IN  IF p % 2 = 1 THEN u % 256 ELSE u \div 256]

----------------------------------------------------------------------------
(* Format codec *)

int16ToFloat32(int16Samples) ==
    [i \in 1..Len(int16Samples) |-> 2 * int16Samples[i]]

\* the store into an Int16Array without the clamp of line 77: the value
\* truncated toward zero, modulo 2^16
Float32SampleToInt16Wraps(f) ==
    ToInt16((IF f >= 0 THEN f \div 2 ELSE -((-f) \div 2)) % (2 * Scale))

\* sample = f * 32768, clamped to [-32768, 32767]; the store into the
\* Int16Array truncates toward zero.
Float32SampleToInt16(f) ==
    IF f >= 2 * (Scale - 1) THEN Scale - 1
    ELSE IF f <= -(2 * Scale) THEN -Scale
    ELSE IF f >= 0 THEN f \div 2 ELSE -((-f) \div 2)

float32ToInt16(float32Samples) ==
    [i \in 1..Len(float32Samples) |-> Float32SampleToInt16(float32Samples[i])]

----------------------------------------------------------------------------
(* getBufferSizes *)

ProviderChunkSize(rate) == (rate * 2) \div 100
ClientChunkSize == (ClientSampleRate * 2 * 2) \div 100
DownsampleThreshold(rate) == ProviderChunkSize(rate) * 2

\* the object getBufferSizes() returns (lines 98-102)
getBufferSizes(rate) ==
    [providerChunkSize |-> ProviderChunkSize(rate),
     clientChunkSize |-> ClientChunkSize,
     downsampleThreshold |-> DownsampleThreshold(rate)]

----------------------------------------------------------------------------
(* The record of calls made so far: one entry per completed call, with the *)
(* caller's input, the returned buffers, the error thrown (if any), the    *)
(* converter invocations the call made and the handles it created.         *)

Call(op, input, ret, err, conv, created) ==
    [op |-> op, input |-> input, ret |-> ret, err |-> err,
     conv |-> conv, created |-> created]

Invocation(dir, handle, input, output, ok) ==
    [dir |-> dir, handle |-> handle, input |-> input, output |-> output,
     ok |-> ok]

RECURSIVE SumLen(_)
SumLen(ss) == IF ss = <<>> THEN 0 ELSE Len(Head(ss)) + SumLen(Tail(ss))

OpOf(dir) == IF dir = "down" THEN "handleDownsampleChunk"
             ELSE "handleUpsampleChunk"

\* bytes the caller has fed to a direction so far
FedBytes(h, dir) ==
    SumLen([i \in 1..Len(h) |->
              IF h[i].op = OpOf(dir) THEN h[i].input ELSE <<>>])

\* all converter invocations so far, in order
AllConv(h) == Flatten([i \in 1..Len(h) |-> h[i].conv])

\* samples a direction's converter has produced so far
Produced(h, dir) ==
    LET c == AllConv(h)
    IN  SumLen([i \in 1..Len(c) |->
                  IF c[i].dir = dir THEN c[i].output ELSE <<>>])

Failures(h) == Cardinality({i \in 1..Len(h) : h[i].err # NoError})

HandlesCreated(h) ==
    LET RECURSIVE Sum(_)
        Sum(i) == IF i = 0 THEN 0 ELSE h[i].created + Sum(i - 1)
    IN  Sum(Len(h))

\* the p-th byte of a direction's input stream: sample k has value k
InputByte(p) ==
    LET s == (p + 1) \div 2
    IN  IF p % 2 = 1 THEN s % 256 ELSE s \div 256

InputBytes(start, n) == [i \in 1..n |-> InputByte(start + i)]

----------------------------------------------------------------------------
(* The external conversion primitive: resampler.simple(float32Samples),    *)
(* stateless.  The identity converter returns its input; an opaque one     *)
(* returns fresh samples, as many as its kind and the rates determine      *)
(* ("long": twice the rate ratio plus one); base is the number of samples  *)
(* the converter has produced before.                                      *)

SimpleLength(kind, inLen, srcRate, dstRate) ==
    IF kind = "long" THEN 2 * ((inLen * dstRate) \div srcRate) + 1
    ELSE inLen

Simple(kind, float32Samples, srcRate, dstRate, base) ==
    IF kind = "identity" THEN float32Samples
    ELSE [i \in 1..SimpleLength(kind, Len(float32Samples), srcRate, dstRate)
            |-> -(2 * (base + i))]

----------------------------------------------------------------------------
(* initialize(): create() resolves with a new handle (handles are numbered *)
(* in creation order; made is the number created before).                  *)

\* an initialize() without the isInitialized guard
initializeUnguarded(dR, uR, inited, made) ==
    [downResampler |-> made + 1, upResampler |-> made + 2,
     isInitialized |-> TRUE, created |-> 2]

\* an initialize() that creates the client->provider converter only
initializeUpOnly(dR, uR, inited, made) ==
    IF inited
    THEN [downResampler |-> dR, upResampler |-> uR, isInitialized |-> TRUE,
          created |-> 0]
    ELSE [downResampler |-> dR, upResampler |-> made + 1,
          isInitialized |-> TRUE, created |-> 1]

\* the fields after initialize() and the number of handles it created
initialize(dR, uR, inited, made) ==
    IF inited
    THEN [downResampler |-> dR, upResampler |-> uR, isInitialized |-> TRUE,
          created |-> 0]
    ELSE [downResampler |-> made + 1, upResampler |-> made + 2,
          isInitialized |-> TRUE, created |-> 2]

\* a handler that does not initialize
LazyInitializeSkipped(dR, uR, inited, made) ==
    [downResampler |-> dR, upResampler |-> uR, isInitialized |-> inited,
     created |-> 0]

\* the lazy `if (!this.isInitialized) await this.initialize()` of a handler
LazyInitialize(dR, uR, inited, made) ==
    IF ~inited THEN initialize(dR, uR, inited, made)
    ELSE [downResampler |-> dR, upResampler |-> uR, isInitialized |-> inited,
          created |-> 0]

----------------------------------------------------------------------------
(* Re-segmentation into client-sized chunks *)

\* while (offset + size <= buf.length) push(buf.subarray(offset, offset+size))
SplitChunks(buf, size) ==
    [k \in 1..(Len(buf) \div size) |->
        SubSeq(buf, (k - 1) * size + 1, k * size)]

\* resampledOffset < length ? resampledBuffer.subarray(resampledOffset) : null
SaveResampledRemainder(resampledBuffer, resampledOffset) ==
    IF resampledOffset < Len(resampledBuffer)
    THEN Some(SubSeq(resampledBuffer, resampledOffset + 1,
                     Len(resampledBuffer)))
    ELSE Null

\* processingOffset < length ? combined.subarray(processingOffset)
\*                           : this.downsampleBuffer ?? null
SaveUnprocessedInput(combinedBuffer, processingOffset, buffer) ==
    IF processingOffset < Len(combinedBuffer)
    THEN Some(SubSeq(combinedBuffer, processingOffset + 1,
                     Len(combinedBuffer)))
    ELSE buffer

\* a handler that forgets the bytes carried over from the previous call
CombineBufferDropsCarry(buffer, incomingData) == incomingData

\* this.downsampleBuffer ? Buffer.concat([buffer, incoming]) : incoming
CombineBuffer(buffer, incomingData) ==
    IF buffer # Null THEN buffer[1] \o incomingData ELSE incomingData

----------------------------------------------------------------------------
(* handleDownsampleChunk: the conversion loop.  st carries the locals and  *)
(* this.downsampleBuffer through the passes.                               *)

LoopState(offset, out, buffer, conv, err) ==
    [processingOffset |-> offset, outputChunks |-> out, buffer |-> buffer,
     conv |-> conv, err |-> err]

\* one iteration of the outer while loop (lines 128-150)
DownPass(combinedBuffer, st, ok, threshold, handle, kind, rate, base) ==
    LET currentChunk == SubSeq(combinedBuffer, st.processingOffset + 1,
                               st.processingOffset + threshold)
        float32Samples ==
            int16ToFloat32(Int16View(currentChunk, Len(currentChunk)))
        resampledFloat32 ==
            Simple(kind, float32Samples, rate, ClientSampleRate, base)
        resampledBuffer == BufferFrom(float32ToInt16(resampledFloat32))
        chunks == SplitChunks(resampledBuffer, ClientChunkSize)
        resampledOffset == Len(chunks) * ClientChunkSize
    IN  IF handle = NullHandle
        THEN [st EXCEPT !.processingOffset = @ + threshold,
                        !.err = TypeError]
        ELSE IF ~ok
        THEN [st EXCEPT !.processingOffset = @ + threshold,
                        !.conv = Append(@, Invocation("down", handle,
                                             float32Samples, <<>>, FALSE)),
                        !.err = ConversionFailure]
        ELSE LoopState(st.processingOffset + threshold,
                       st.outputChunks \o chunks,
                       SaveResampledRemainder(resampledBuffer,
                                              resampledOffset),
                       Append(st.conv, Invocation("down", handle,
                                float32Samples, resampledFloat32, TRUE)),
                       NoError)

\* samples the invocations logged in conv have produced
ProducedIn(conv) == SumLen([i \in 1..Len(conv) |-> conv[i].output])

\* failAt is the pass whose converter invocation throws (0: none does)
RECURSIVE DownLoop(_, _, _, _, _, _, _, _)
DownLoop(combinedBuffer, st, failAt, threshold, handle, kind, rate, base) ==
    IF st.err = NoError
       /\ st.processingOffset + threshold <= Len(combinedBuffer)
    THEN DownLoop(combinedBuffer,
                  DownPass(combinedBuffer, st,
                           failAt # st.processingOffset \div threshold + 1,
                           threshold, handle, kind, rate,
                           base + ProducedIn(st.conv)),
                  failAt, threshold, handle, kind, rate, base)
    ELSE st

\* the body of handleDownsampleChunk after initialization (lines 116-158)
DownsampleBody(buffer, incomingData, failAt, rate, handle, kind, base) ==
    LET combinedBuffer == CombineBuffer(buffer, incomingData)
        st == DownLoop(combinedBuffer,
                       LoopState(0, <<>>, buffer, <<>>, NoError),
                       failAt, DownsampleThreshold(rate), handle, kind, rate,
                       base)
    IN  IF st.err # NoError
        THEN [st EXCEPT !.outputChunks = <<>>]
        ELSE [st EXCEPT !.buffer = SaveUnprocessedInput(combinedBuffer,
                                       st.processingOffset, st.buffer)]

----------------------------------------------------------------------------
(* flushDownsampleRemainder after its empty-buffer check (lines 196-225)   *)

\* a flush that returns the partial remainder without padding it
PadFinalChunkUnpadded(resampledBuffer, offset) ==
    IF offset < Len(resampledBuffer)
    THEN <<SubSeq(resampledBuffer, offset + 1, Len(resampledBuffer))>>
    ELSE <<>>

\* the zero-padded final chunk (lines 217-221)
PadFinalChunk(resampledBuffer, offset) ==
    IF offset < Len(resampledBuffer)
    THEN <<SubSeq(resampledBuffer, offset + 1, Len(resampledBuffer))
           \o Zeros(ClientChunkSize - (Len(resampledBuffer) - offset))>>
    ELSE <<>>

\* a flush that leaves the residual in place
ClearResidualKeeps(buffer) == buffer

\* this.downsampleBuffer = null (line 223)
ClearResidual(buffer) == Null

FlushBody(buffer, ok, handle, kind, rate, base) ==
    LET buf == buffer[1]
        float32Samples == int16ToFloat32(Int16View(buf, Len(buf)))
        resampledFloat32 ==
            Simple(kind, float32Samples, rate, ClientSampleRate, base)
        resampledBuffer == BufferFrom(float32ToInt16(resampledFloat32))
        chunks == SplitChunks(resampledBuffer, ClientChunkSize)
        offset == Len(chunks) * ClientChunkSize
    IN  IF handle = NullHandle
        THEN LoopState(0, <<>>, buffer, <<>>, TypeError)
        ELSE IF ~ok
        THEN LoopState(0, <<>>, buffer,
                       <<Invocation("down", handle, float32Samples, <<>>,
                                    FALSE)>>,
                       ConversionFailure)
        ELSE LoopState(offset,
                       chunks \o PadFinalChunk(resampledBuffer, offset),
                       ClearResidual(buffer),
                       <<Invocation("down", handle, float32Samples,
                                    resampledFloat32, TRUE)>>,
                       NoError)

----------------------------------------------------------------------------
(* The state machine: one action per public method, calls strictly         *)
(* sequential (one call completes before the next begins).                 *)

InSizes(threshold) == {1, 2, 2 * threshold - 2}
UpSizes == {3, 4}

MayFail == Failures(history) < MaxFailures

Calls(op) == Cardinality({i \in 1..Len(history) : history[i].op = op})

MayCall(op, max) == Len(history) < MaxCalls /\ Calls(op) < max

Init ==
    /\ \E c \in Configurations :
         providerSampleRate = c[1] /\ converterKind = c[2]
    /\ downResampler = NullHandle
    /\ upResampler = NullHandle
    /\ downsampleBuffer = Null
    /\ isInitialized = FALSE
    /\ inflight = {}
    /\ history = <<>>

Initialize ==
    /\ MayCall("initialize", MaxInitializeCalls)
    /\ LET r == initialize(downResampler, upResampler, isInitialized,
                           HandlesCreated(history))
       IN  /\ downResampler' = r.downResampler
           /\ upResampler' = r.upResampler
           /\ isInitialized' = r.isInitialized
           /\ history' = Append(history,
                  Call("initialize", <<>>, <<>>, NoError, <<>>, r.created))
    /\ UNCHANGED <<inflight, providerSampleRate, converterKind, downsampleBuffer>>

HandleDownsampleChunk ==
    /\ MayCall("handleDownsampleChunk", MaxDownsampleCalls)
    /\ \E n \in InSizes(DownsampleThreshold(providerSampleRate)) :
         LET incomingData == InputBytes(FedBytes(history, "down"), n)
             r == LazyInitialize(downResampler, upResampler, isInitialized,
                                 HandlesCreated(history))
             passes == Len(CombineBuffer(downsampleBuffer, incomingData))
                          \div DownsampleThreshold(providerSampleRate)
         IN  /\ downResampler' = r.downResampler
             /\ upResampler' = r.upResampler
             /\ isInitialized' = r.isInitialized
             /\ \E failAt \in 0..(IF MayFail THEN passes ELSE 0) :
                  LET st == DownsampleBody(downsampleBuffer, incomingData,
                                failAt, providerSampleRate, r.downResampler,
                                converterKind, Produced(history, "down"))
                  IN  /\ downsampleBuffer' = st.buffer
                      /\ history' = Append(history,
                             Call("handleDownsampleChunk", incomingData,
                                  st.outputChunks, st.err, st.conv,
                                  r.created))
    /\ UNCHANGED <<inflight, providerSampleRate, converterKind>>

\* an upsampler that holds back the last input sample
UpsampleBodyHoldsBack(incomingData, ok, handle, kind, rate, base) ==
    LET float32Samples ==
            int16ToFloat32(Int16View(incomingData, Len(incomingData) - 2))
        resampledFloat32 ==
            Simple(kind, float32Samples, ClientSampleRate, rate, base)
        resampledBuffer == BufferFrom(float32ToInt16(resampledFloat32))
    IN  IF handle = NullHandle
        THEN LoopState(0, <<>>, Null, <<>>, TypeError)
        ELSE IF ~ok
        THEN LoopState(0, <<>>, Null,
                       <<Invocation("up", handle, float32Samples, <<>>,
                                    FALSE)>>,
                       ConversionFailure)
        ELSE LoopState(0, <<resampledBuffer>>, Null,
                       <<Invocation("up", handle, float32Samples,
                                    resampledFloat32, TRUE)>>,
                       NoError)

\* lines 171-180
UpsampleBody(incomingData, ok, handle, kind, rate, base) ==
    LET float32Samples ==
            int16ToFloat32(Int16View(incomingData, Len(incomingData)))
        resampledFloat32 ==
            Simple(kind, float32Samples, ClientSampleRate, rate, base)
        resampledBuffer == BufferFrom(float32ToInt16(resampledFloat32))
    IN  IF handle = NullHandle
        THEN LoopState(0, <<>>, Null, <<>>, TypeError)
        ELSE IF ~ok
        THEN LoopState(0, <<>>, Null,
                       <<Invocation("up", handle, float32Samples, <<>>,
                                    FALSE)>>,
                       ConversionFailure)
        ELSE LoopState(0, <<resampledBuffer>>, Null,
                       <<Invocation("up", handle, float32Samples,
                                    resampledFloat32, TRUE)>>,
                       NoError)

HandleUpsampleChunk ==
    /\ MayCall("handleUpsampleChunk", MaxUpsampleCalls)
    /\ \E n \in UpSizes, ok \in {TRUE} \cup {~MayFail} :
         LET incomingData == InputBytes(FedBytes(history, "up"), n)
             r == LazyInitialize(downResampler, upResampler, isInitialized,
                                 HandlesCreated(history))
             st == UpsampleBody(incomingData, ok, r.upResampler,
                                converterKind, providerSampleRate,
                                Produced(history, "up"))
         IN  /\ downResampler' = r.downResampler
             /\ upResampler' = r.upResampler
             /\ isInitialized' = r.isInitialized
             /\ history' = Append(history,
                    Call("handleUpsampleChunk", incomingData,
                         st.outputChunks, st.err, st.conv, r.created))
    /\ UNCHANGED <<inflight, providerSampleRate, converterKind, downsampleBuffer>>

FlushDownsampleRemainder ==
    /\ MayCall("flushDownsampleRemainder", MaxFlushCalls)
    /\ IF downsampleBuffer = Null \/ Len(downsampleBuffer[1]) = 0
       THEN /\ downsampleBuffer' = downsampleBuffer
            /\ history' = Append(history,
                   Call("flushDownsampleRemainder", <<>>, <<>>, NoError,
                        <<>>, 0))
       ELSE \E ok \in {TRUE} \cup {~MayFail} :
              LET st == FlushBody(downsampleBuffer, ok, downResampler,
                                  converterKind, providerSampleRate,
                                  Produced(history, "down"))
              IN  /\ downsampleBuffer' = st.buffer
                  /\ history' = Append(history,
                         Call("flushDownsampleRemainder", <<>>,
                              st.outputChunks, st.err, st.conv, 0))
    /\ UNCHANGED <<inflight, providerSampleRate, converterKind, downResampler,
                   upResampler, isInitialized>>

\* a destroy() that leaves the instance marked initialized
destroyKeepsInitialized ==
    [downsampleBuffer |-> Null, isInitialized |-> TRUE,
     downResampler |-> NullHandle, upResampler |-> NullHandle]

\* the fields destroy() assigns (lines 232-235)
destroy ==
    [downsampleBuffer |-> Null, isInitialized |-> FALSE,
     downResampler |-> NullHandle, upResampler |-> NullHandle]

Destroy ==
    /\ MayCall("destroy", MaxDestroyCalls)
    /\ downsampleBuffer' = destroy.downsampleBuffer
    /\ isInitialized' = destroy.isInitialized
    /\ downResampler' = destroy.downResampler
    /\ upResampler' = destroy.upResampler
    /\ history' = Append(history, Call("destroy", <<>>, <<>>, NoError, <<>>, 0))
    /\ UNCHANGED <<inflight, providerSampleRate, converterKind>>

Next ==
    \/ Initialize
    \/ HandleDownsampleChunk
    \/ HandleUpsampleChunk
    \/ FlushDownsampleRemainder
    \/ Destroy

Spec == Init /\ [][Next]_vars

TypeOK ==
    /\ providerSampleRate \in ProviderRates
    /\ converterKind \in ConverterKinds
    /\ isInitialized \in BOOLEAN
    /\ Len(downsampleBuffer) <= 1
    /\ Len(history) <= MaxCalls

----------------------------------------------------------------------------
(* What the caller has observed *)

Last == history[Len(history)]
NewCall == history'[Len(history')]

IsDown(c) == c.op = "handleDownsampleChunk"
IsUp(c) == c.op = "handleUpsampleChunk"
IsFlush(c) == c.op = "flushDownsampleRemainder"

\* the bytes handed to handleDownsampleChunk so far, in order
AllIn(h) == Flatten([i \in 1..Len(h) |->
                       IF IsDown(h[i]) THEN h[i].input ELSE <<>>])

\* the bytes of all chunks the downsample path has returned so far, in order
AllOut(h) == Flatten([i \in 1..Len(h) |->
                        IF IsDown(h[i]) \/ IsFlush(h[i])
                        THEN Flatten(h[i].ret) ELSE <<>>])

\* the provider->client converter's outputs so far, encoded, in pass order
ConvOut(h) ==
    LET c == AllConv(h)
    IN  Flatten([i \in 1..Len(c) |->
                   IF c[i].dir = "down" /\ c[i].ok
                   THEN BufferFrom(float32ToInt16(c[i].output)) ELSE <<>>])

\* a stream: successful calls without destroy or flush, then one flush
StreamThenFlush(h) ==
    /\ Len(h) >= 2
    /\ \A i \in 1..Len(h) : h[i].err = NoError
    /\ \A i \in 1..(Len(h) - 1) :
         IsDown(h[i]) \/ IsUp(h[i]) \/ h[i].op = "initialize"
    /\ \E i \in 1..(Len(h) - 1) : IsDown(h[i])
    /\ IsFlush(h[Len(h)])

\* s is t followed by fewer than one chunk of zero padding
IsPaddingOf(s, t) ==
    /\ Len(s) >= Len(t)
    /\ Len(s) - Len(t) < ClientChunkSize
    /\ SubSeq(s, 1, Len(t)) = t
    /\ \A i \in (Len(t) + 1)..Len(s) : s[i] = 0

----------------------------------------------------------------------------
(* C1: every chunk returned by handleDownsampleChunk and by                *)
(* flushDownsampleRemainder is exactly clientChunkSize (320) bytes long,   *)
(* the zero-padded last chunk of a flush included.                         *)
C1_ChunkLength ==
    (history # <<>> /\ (IsDown(Last) \/ IsFlush(Last))) =>
        \A k \in 1..Len(Last.ret) : Len(Last.ret[k]) = ClientChunkSize

\* a call returned several chunks and a later flush returned a padded one
C1_Witness ==
    /\ Len(history) >= 2
    /\ \E i \in 1..(Len(history) - 1) :
         IsDown(history[i]) /\ Len(history[i].ret) >= 2
    /\ IsFlush(Last) /\ Last.err = NoError /\ Len(Last.ret) >= 1
    /\ (2 * Len(Last.conv[1].output)) % ClientChunkSize # 0

(* C2: resampled output is carried forward losslessly: when the            *)
(* converter's per-pass output is not a multiple of clientChunkSize, the   *)
(* chunks returned by a stream of handleDownsampleChunk calls and the      *)
(* final flush, minus the trailing zero padding, are exactly the           *)
(* converter's outputs in pass order.                                      *)
C2_LosslessCarry ==
    (/\ StreamThenFlush(history)
     /\ \E c \in {AllConv(history)[i] : i \in 1..Len(AllConv(history))} :
          c.dir = "down" /\ (2 * Len(c.output)) % ClientChunkSize # 0)
    => IsPaddingOf(AllOut(history), ConvOut(history))

\* the stream the no-data-loss property is about
C3_Precondition ==
    /\ providerSampleRate = 8000
    /\ converterKind = "identity"
    /\ StreamThenFlush(history)
    /\ \A i \in 1..Len(history) :
         IsDown(history[i]) => Len(history[i].input) % 2 = 0

(* C3: with provider rate 8000 and the identity converter, N bytes fed in  *)
(* even-sized calls and then flushed come back as chunks whose total       *)
(* length is a multiple of 320 and whose bytes are the N input bytes, each *)
(* once and in order, followed by fewer than 320 zero bytes.               *)
C3_NoDataLoss ==
    C3_Precondition =>
        /\ Len(AllOut(history)) % ClientChunkSize = 0
        /\ IsPaddingOf(AllOut(history), AllIn(history))

\* a call converted bytes carried over from the call before it, and the
\* flush returned a padded chunk
C3_Witness ==
    /\ C3_Precondition
    /\ \E i \in 1..Len(history) :
         /\ IsDown(history[i])
         /\ Len(history[i].conv) * ClientChunkSize > Len(history[i].input)
    /\ Len(AllIn(history)) % ClientChunkSize # 0
    /\ Last.ret # <<>>

----------------------------------------------------------------------------
\* the buffer holds what the last conversion pass left over (post-resample
\* residual): every input byte has been consumed
PostResampleResidual ==
    /\ downsampleBuffer # Null
    /\ history # <<>>
    /\ IsDown(Last) /\ Last.err = NoError /\ Last.conv # <<>>
    /\ LET out == BufferFrom(float32ToInt16(Last.conv[Len(Last.conv)].output))
           L == Len(out) % ClientChunkSize
       IN  /\ L > 0
           /\ downsampleBuffer[1] = SubSeq(out, Len(out) - L + 1, Len(out))

(* C4: flush padding: when all input has been consumed and the             *)
(* post-resample residual has length L, 0 < L < 320, flush returns exactly *)
(* one 320-byte chunk: the residual unchanged, then 320 - L zero bytes.    *)
C4_FlushPadding ==
    [][(PostResampleResidual /\ IsFlush(NewCall) /\ NewCall.err = NoError)
          => NewCall.ret =
               <<downsampleBuffer[1]
                 \o Zeros(ClientChunkSize - Len(downsampleBuffer[1]))>>]_vars

----------------------------------------------------------------------------
EverDestroyed(h, i) == \E j \in 1..(i - 1) : h[j].op = "destroy"

----------------------------------------------------------------------------
(* C6: a processing call given an odd-length buffer fails with an          *)
(* InvalidInput error; the odd byte is never silently dropped or carried.  *)
C6_OddLengthRejected ==
    \A i \in 1..Len(history) :
        ((IsDown(history[i]) \/ IsUp(history[i]))
           /\ Len(history[i].input) % 2 = 1)
        => history[i].err = "InvalidInput"

----------------------------------------------------------------------------
(* C7: if the converter throws during a pass of handleDownsampleChunk or   *)
(* during flushDownsampleRemainder, the residual buffer after the failed   *)
(* call is the residual buffer before the call.                            *)
C7_AtomicOnError ==
    [][((IsDown(NewCall) \/ IsFlush(NewCall))
          /\ NewCall.err = ConversionFailure)
         => downsampleBuffer' = downsampleBuffer]_vars

----------------------------------------------------------------------------
(* C8: initialize() on an initialized instance changes nothing: it creates *)
(* no handle, replaces no handle and throws nothing.                       *)
C8_IdempotentInitialize ==
    [][(isInitialized /\ NewCall.op = "initialize") =>
         /\ NewCall.created = 0
         /\ NewCall.err = NoError
         /\ downResampler' = downResampler
         /\ upResampler' = upResampler
         /\ isInitialized'
         /\ downsampleBuffer' = downsampleBuffer]_vars

\* initialize() was called twice in a row
C8_Witness ==
    /\ Len(history) >= 2
    /\ Last.op = "initialize"
    /\ history[Len(history) - 1].op = "initialize"
    /\ history[Len(history) - 1].created = 2
    /\ isInitialized

----------------------------------------------------------------------------
\* the passes a handleDownsampleChunk call on a fresh instance runs
FreshPasses(c) == Len(c.input) \div DownsampleThreshold(providerSampleRate)

(* C9: the first processing call on a fresh instance creates both          *)
(* converter handles before it invokes a converter and then processes its  *)
(* input; it does not fail for want of initialization.                     *)
C9_LazyInitialization ==
    (Len(history) = 1 /\ (IsDown(Last) \/ IsUp(Last)))
    => /\ Last.created = 2
       /\ isInitialized
       /\ downResampler # NullHandle /\ upResampler # NullHandle
       /\ downResampler # upResampler
       /\ Last.err \in {NoError, ConversionFailure}
       /\ \A k \in 1..Len(Last.conv) :
            Last.conv[k].handle =
                (IF IsDown(Last) THEN downResampler ELSE upResampler)
       /\ Last.err = NoError =>
            Len(Last.conv) = (IF IsDown(Last) THEN FreshPasses(Last) ELSE 1)

\* the first call converted with a handle it had just created
C9_Witness ==
    /\ Len(history) = 1 /\ IsDown(Last) /\ Last.err = NoError
    /\ Last.conv # <<>> /\ Last.ret # <<>>
    /\ Last.created = 2

----------------------------------------------------------------------------
(* C10: every handleUpsampleChunk call leaves the downsample residual      *)
(* unchanged and never invokes the provider->client converter; a           *)
(* successful call on an even-length buffer invokes the client->provider   *)
(* converter exactly once, on the whole input, and returns the whole       *)
(* converter output as one buffer of even length.                          *)
C10_UpsampleStateless ==
    [][IsUp(NewCall) =>
         /\ downsampleBuffer' = downsampleBuffer
         /\ \A k \in 1..Len(NewCall.conv) : NewCall.conv[k].dir = "up"
         /\ Len(NewCall.ret) <= 1
         /\ (NewCall.err = NoError /\ Len(NewCall.input) % 2 = 0) =>
              /\ Len(NewCall.conv) = 1
              /\ NewCall.conv[1].dir = "up"
              /\ NewCall.conv[1].handle = upResampler'
              /\ BufferFrom(float32ToInt16(NewCall.conv[1].input))
                   = NewCall.input
              /\ NewCall.ret =
                   <<BufferFrom(float32ToInt16(NewCall.conv[1].output))>>
              /\ Len(NewCall.ret[1]) % 2 = 0]_vars

\* an upsample call between two downsample calls, with a residual pending
C10_Witness ==
    /\ Len(history) = 3
    /\ IsDown(history[1]) /\ IsUp(history[2]) /\ IsDown(history[3])
    /\ \A i \in 1..3 : history[i].err = NoError
    /\ Len(history[2].input) % 2 = 0
    /\ history[2].ret # <<>> /\ Len(history[2].ret[1]) > 0
    /\ Len(history[1].input) < DownsampleThreshold(providerSampleRate)
    /\ history[3].ret # <<>>


----------------------------------------------------------------------------
\* the residual is empty: null or a zero-length buffer (line 192)
NoResidual(buffer) == buffer = Null \/ Len(buffer[1]) = 0

(* C11: a flushDownsampleRemainder call that returns successfully leaves   *)
(* the residual empty, and a flush on an instance with no residual (fresh, *)
(* just flushed or just destroyed) returns an empty sequence without       *)
(* invoking a converter.                                                   *)
C11_FlushClearsResidual ==
    [][IsFlush(NewCall) =>
         /\ NewCall.err = NoError => NoResidual(downsampleBuffer')
         /\ NoResidual(downsampleBuffer) =>
              /\ NewCall.ret = <<>>
              /\ NewCall.conv = <<>>
              /\ NewCall.err = NoError]_vars

\* a flush that converted a residual, then a second flush that returned
\* nothing
C11_Witness ==
    /\ Len(history) >= 3
    /\ IsFlush(Last) /\ Last.ret = <<>> /\ Last.conv = <<>>
    /\ IsFlush(history[Len(history) - 1])
    /\ history[Len(history) - 1].err = NoError
    /\ history[Len(history) - 1].ret # <<>>
    /\ NoResidual(downsampleBuffer)


----------------------------------------------------------------------------
(* The format codec on its own: the static methods int16ToFloat32 and      *)
(* float32ToInt16 applied to arrays of up to MaxCodecLen samples.  No      *)
(* instance is involved; history records the calls: an array is encoded,   *)
(* the result is decoded, then an arbitrary Float32Array is decoded.       *)

Int16Samples == {-Scale, 1 - Scale, -1, 0, 1, Scale - 1}

\* -2.0, just below -1.0, -1.0, -1.5/32768, -0.5/32768, 0, 0.5/32768,
\* 32767/32768, 32767.5/32768, 1.0, 2.0
Float32Samples ==
    {-(4 * Scale), -(2 * Scale) - 1, -(2 * Scale), -3, -1, 0, 1,
     2 * Scale - 2, 2 * Scale - 1, 2 * Scale, 4 * Scale}

ArraysOf(S) == UNION {[1..n -> S] : n \in 0..MaxCodecLen}

CodecCall(op, input, ret) == Call(op, input, ret, NoError, <<>>, 0)

InitCodec ==
    /\ providerSampleRate = ClientSampleRate
    /\ converterKind = "identity"
    /\ downResampler = NullHandle
    /\ upResampler = NullHandle
    /\ downsampleBuffer = Null
    /\ isInitialized = FALSE
    /\ inflight = {}
    /\ history = <<>>

Int16ToFloat32 ==
    /\ history = <<>>
    /\ \E int16Samples \in ArraysOf(Int16Samples) :
         history' = <<CodecCall("int16ToFloat32", int16Samples,
                                int16ToFloat32(int16Samples))>>
    /\ UNCHANGED <<inflight, providerSampleRate, converterKind, downResampler,
                   upResampler, downsampleBuffer, isInitialized>>

\* the array just encoded is decoded; after that, any array is
Float32ToInt16 ==
    /\ Len(history) \in {1, 2}
    /\ \E float32Samples \in
            (IF Len(history) = 1 THEN {history[1].ret}
             ELSE ArraysOf(Float32Samples)) :
         history' = Append(history,
                      CodecCall("float32ToInt16", float32Samples,
                                float32ToInt16(float32Samples)))
    /\ UNCHANGED <<inflight, providerSampleRate, converterKind, downResampler,
                   upResampler, downsampleBuffer, isInitialized>>

NextCodec == Int16ToFloat32 \/ Float32ToInt16

SpecCodec == InitCodec /\ [][NextCodec]_vars

Abs(x) == IF x < 0 THEN -x ELSE x

(* C12: decoding an encoded Int16Array gives back every sample within 1,   *)
(* both conversions keep the array length, and a float sample whose scaled *)
(* value lies outside [-32768, 32767] decodes to the nearer bound, never   *)
(* to a wrapped value.                                                     *)
C12_CodecRoundTrip ==
    /\ \A i \in 1..Len(history) :
         /\ Len(history[i].ret) = Len(history[i].input)
         /\ history[i].op = "float32ToInt16" =>
              \A k \in 1..Len(history[i].input) :
                 /\ history[i].input[k] > 2 * (Scale - 1)
                      => history[i].ret[k] = Scale - 1
                 /\ history[i].input[k] < -(2 * Scale)
                      => history[i].ret[k] = -Scale
    /\ Len(history) >= 2 =>
         \A k \in 1..Len(history[1].input) :
            Abs(history[2].ret[k] - history[1].input[k]) <= 1

\* both extremes went through the round trip, and samples beyond both
\* bounds were decoded
C12_Witness ==
    /\ Len(history) = 3
    /\ history[1].input = <<-Scale, Scale - 1>>
    /\ history[2].ret = <<-Scale, Scale - 1>>
    /\ history[3].input = <<4 * Scale, -(2 * Scale) - 1>>
    /\ history[3].ret = <<Scale - 1, -Scale>>


----------------------------------------------------------------------------
\* the JavaScript value a settled handleDownsampleChunk call resolved with:
\* `return outputChunks` (line 158), an Array created on line 123
Returned(c) == [type |-> "Array", elements |-> c.ret]

(* C13: handleDownsampleChunk returns null when not enough data has        *)
(* accumulated to run a conversion pass, and a non-null converted result   *)
(* otherwise.                                                              *)
C13_NullWhenStarved ==
    (history # <<>> /\ IsDown(Last) /\ Last.err = NoError) =>
        (Returned(Last).type = "null" <=> Last.conv = <<>>)


----------------------------------------------------------------------------
\* the bytes passed to the provider->client converter so far, in pass order
ConvIn(h) ==
    LET c == AllConv(h)
    IN  Flatten([i \in 1..Len(c) |->
                   IF c[i].dir = "down"
                   THEN BufferFrom(float32ToInt16(c[i].input)) ELSE <<>>])

\* successful handleDownsampleChunk calls on whole samples, then at most
\* one flush
DownStream(h) ==
    /\ h # <<>>
    /\ \A i \in 1..Len(h) :
         /\ h[i].err = NoError
         /\ IsDown(h[i]) \/ (i = Len(h) /\ i > 1 /\ IsFlush(h[i]))
         /\ Len(h[i].input) % 2 = 0

(* C14: across a stream of handleDownsampleChunk calls and the final       *)
(* flush, the bytes passed to the provider->client converter are the       *)
(* caller's input bytes, each once and in arrival order: resampled output  *)
(* left over from a pass is never fed to the converter again.              *)
C14_ResidualNeverMixes ==
    DownStream(history) =>
        /\ Len(ConvIn(history)) <= Len(AllIn(history))
        /\ ConvIn(history) = SubSeq(AllIn(history), 1, Len(ConvIn(history)))
        /\ IsFlush(Last) => ConvIn(history) = AllIn(history)


----------------------------------------------------------------------------
\* successful handleDownsampleChunk calls only, from construction on
OnlyDownCalls(h) == \A i \in 1..Len(h) : IsDown(h[i]) /\ h[i].err = NoError

(* C15: a handleDownsampleChunk call that starts with r unconsumed input   *)
(* bytes and receives n new bytes runs floor((r + n) / downsampleThreshold)*)
(* conversion passes, each over the next downsampleThreshold consecutive   *)
(* input bytes; it returns nothing and invokes no converter when r + n is  *)
(* below the threshold, and it leaves the last (r + n) mod                 *)
(* downsampleThreshold input bytes unconsumed for the next call.           *)
C15_ThresholdAccumulation ==
    [][(OnlyDownCalls(history) /\ IsDown(NewCall) /\ NewCall.err = NoError)
         => LET threshold == DownsampleThreshold(providerSampleRate)
                fed == AllIn(history')
                r == Len(AllIn(history)) % threshold
                n == Len(NewCall.input)
                start == Len(AllIn(history)) - r
                left == (r + n) % threshold
            IN  /\ Len(NewCall.conv) = (r + n) \div threshold
                /\ \A k \in 1..Len(NewCall.conv) :
                     BufferFrom(float32ToInt16(NewCall.conv[k].input)) =
                        SubSeq(fed, start + (k - 1) * threshold + 1,
                               start + k * threshold)
                /\ r + n < threshold =>
                     NewCall.ret = <<>> /\ NewCall.conv = <<>>
                /\ left > 0 =>
                     downsampleBuffer' =
                        Some(SubSeq(fed, Len(fed) - left + 1, Len(fed)))]_vars


----------------------------------------------------------------------------
(* getBufferSizes on its own: an instance constructed with a provider rate *)
(* of at least 100 Hz, on which getBufferSizes() is called.                *)

MinSizesRate == 100

\* every rate up to MaxSizesRate, and the usual audio rates
SizesRates ==
    MinSizesRate..MaxSizesRate
        \cup {8000, 11025, 16000, 22050, 24000, 32000, 44100, 48000}

InitSizes ==
    /\ providerSampleRate \in SizesRates
    /\ converterKind = "identity"
    /\ downResampler = NullHandle
    /\ upResampler = NullHandle
    /\ downsampleBuffer = Null
    /\ isInitialized = FALSE
    /\ inflight = {}
    /\ history = <<>>

GetBufferSizes ==
    /\ history = <<>>
    /\ history' = <<Call("getBufferSizes", <<>>,
                         getBufferSizes(providerSampleRate), NoError,
                         <<>>, 0)>>
    /\ UNCHANGED <<inflight, providerSampleRate, converterKind, downResampler,
                   upResampler, downsampleBuffer, isInitialized>>

NextSizes == GetBufferSizes

SpecSizes == InitSizes /\ [][NextSizes]_vars

(* C16: for every integer provider rate of at least 100 Hz getBufferSizes  *)
(* returns providerChunkSize = floor(rate * 0.01) * 2, clientChunkSize =   *)
(* 320 and downsampleThreshold = 2 * providerChunkSize, and both chunk     *)
(* sizes are even and greater than 0.                                      *)
C16_ChunkSizes ==
    (history # <<>> /\ Last.op = "getBufferSizes") =>
        /\ Last.ret.providerChunkSize = (providerSampleRate \div 100) * 2
        /\ Last.ret.clientChunkSize = 320
        /\ Last.ret.downsampleThreshold = 2 * Last.ret.providerChunkSize
        /\ Last.ret.providerChunkSize % 2 = 0
        /\ Last.ret.clientChunkSize % 2 = 0
        /\ Last.ret.providerChunkSize > 0
        /\ Last.ret.clientChunkSize > 0


----------------------------------------------------------------------------
(* Overlapping calls.  An async method runs until it reaches an await, is  *)
(* suspended there and resumes in a later turn of the event loop; other    *)
(* calls, destroy() among them, run in between.  Each action below is one  *)
(* such run: from the start of a call, or from an await, up to the next    *)
(* await or the end of the call.  The converter is the identity and does   *)
(* not throw; at most MaxAsyncCalls calls are made and a call's conversion *)
(* loop is followed for MaxPasses passes.                                  *)

\* rates with downsampleThreshold 0, 2 and 4
AsyncRates == {1, 50, 100}
AsyncInSizes == {2}

\* a call and its locals; begun is the number of calls that had settled
\* when it started, pending the handle its awaited expression was made with
Task(id, op, input, begun) ==
    [id |-> id, op |-> op, pc |-> "start", input |-> input, begun |-> begun,
     created |-> 0, pending |-> NullHandle, combinedBuffer |-> <<>>,
     processingOffset |-> 0, outputChunks |-> <<>>, passes |-> 0]

\* the record of a settled call
Settled(t, ret, err) ==
    [op |-> t.op, input |-> t.input, ret |-> ret, err |-> err,
     created |-> t.created, begun |-> t.begun, passes |-> t.passes]

RECURSIVE SumCreated(_)
SumCreated(tasks) ==
    IF tasks = {} THEN 0
    ELSE LET t == CHOOSE x \in tasks : TRUE
         IN  t.created + SumCreated(tasks \ {t})

\* handles create() has been asked for so far
TotalCreated == HandlesCreated(history) + SumCreated(inflight)

Started == Len(history) + Cardinality(inflight)
MayBegin == Started < MaxAsyncCalls
NewTask(op, input) == Task(Started + 1, op, input, Len(history))

\* the call settles: old is the task as it was suspended, t as it ends
Settle(old, t, ret, err) ==
    /\ inflight' = inflight \ {old}
    /\ history' = Append(history, Settled(t, ret, err))

\* the call reaches an await
Suspend(old, t) ==
    /\ inflight' = (inflight \ {old}) \cup {t}
    /\ history' = history

\* create(...) is called and awaited (line 43 or 48)
AwaitCreate(t, line) ==
    [t EXCEPT !.pc = line, !.created = @ + 1, !.pending = TotalCreated + 1]

\* handleDownsampleChunk from the loop test on line 127, with buffer the
\* value of this.downsampleBuffer, to the await on line 136 or the return
DownFrom(old, t, buffer) ==
    LET threshold == getBufferSizes(providerSampleRate).downsampleThreshold
    IN  IF t.processingOffset + threshold <= Len(t.combinedBuffer)
        THEN /\ downsampleBuffer' = buffer
             /\ IF downResampler = NullHandle
                THEN Settle(old, t, <<>>, TypeError)
                ELSE Suspend(old, [t EXCEPT !.pc = "simple136",
                                            !.pending = downResampler])
        ELSE /\ downsampleBuffer' =
                    SaveUnprocessedInput(t.combinedBuffer,
                                         t.processingOffset, buffer)
             /\ Settle(old, t, t.outputChunks, NoError)

\* handleDownsampleChunk from line 116
DownBody(old, t) ==
    DownFrom(old,
             [t EXCEPT !.combinedBuffer =
                          CombineBuffer(downsampleBuffer, t.input)],
             downsampleBuffer)

\* handleUpsampleChunk from line 171
UpBody(old, t) ==
    LET st == UpsampleBody(t.input, TRUE, upResampler, converterKind,
                           providerSampleRate, 0)
    IN  /\ Settle(old, t, st.outputChunks, st.err)
        /\ downsampleBuffer' = downsampleBuffer

InitAsync ==
    /\ providerSampleRate \in AsyncRates
    /\ converterKind = "identity"
    /\ downResampler = NullHandle
    /\ upResampler = NullHandle
    /\ downsampleBuffer = Null
    /\ isInitialized = FALSE
    /\ inflight = {}
    /\ history = <<>>

\* initialize() up to the await on line 43
BeginInitialize ==
    /\ MayBegin
    /\ LET t == NewTask("initialize", <<>>)
       IN  IF isInitialized
           THEN Settle(t, t, <<>>, NoError)
           ELSE Suspend(t, AwaitCreate(t, "create43"))
    /\ UNCHANGED <<providerSampleRate, converterKind, downResampler,
                   upResampler, downsampleBuffer, isInitialized>>

\* handleDownsampleChunk up to its first await
BeginHandleDownsampleChunk ==
    /\ MayBegin
    /\ \E n \in AsyncInSizes :
         LET t == NewTask("handleDownsampleChunk", InputBytes(0, n))
         IN  IF ~isInitialized
             THEN /\ Suspend(t, AwaitCreate(t, "create43"))
                  /\ downsampleBuffer' = downsampleBuffer
             ELSE DownBody(t, t)
    /\ UNCHANGED <<providerSampleRate, converterKind, downResampler,
                   upResampler, isInitialized>>

\* handleUpsampleChunk up to its first await, or to its end
BeginHandleUpsampleChunk ==
    /\ MayBegin
    /\ \E n \in AsyncInSizes :
         LET t == NewTask("handleUpsampleChunk", InputBytes(0, n))
         IN  IF ~isInitialized
             THEN /\ Suspend(t, AwaitCreate(t, "create43"))
                  /\ downsampleBuffer' = downsampleBuffer
             ELSE UpBody(t, t)
    /\ UNCHANGED <<providerSampleRate, converterKind, downResampler,
                   upResampler, isInitialized>>

\* flushDownsampleRemainder up to the await on line 205
BeginFlushDownsampleRemainder ==
    /\ MayBegin
    /\ LET t == NewTask("flushDownsampleRemainder", <<>>)
       IN  IF NoResidual(downsampleBuffer)
           THEN Settle(t, t, <<>>, NoError)
           ELSE IF downResampler = NullHandle
           THEN Settle(t, t, <<>>, TypeError)
           ELSE Suspend(t, [t EXCEPT !.pc = "simple205",
                                     !.pending = downResampler,
                                     !.combinedBuffer = downsampleBuffer[1]])
    /\ UNCHANGED <<providerSampleRate, converterKind, downResampler,
                   upResampler, downsampleBuffer, isInitialized>>

\* destroy() is synchronous: it runs between the runs of suspended calls
DestroyNow ==
    /\ MayBegin
    /\ downsampleBuffer' = destroy.downsampleBuffer
    /\ isInitialized' = destroy.isInitialized
    /\ downResampler' = destroy.downResampler
    /\ upResampler' = destroy.upResampler
    /\ LET t == NewTask("destroy", <<>>)
       IN  Settle(t, t, <<>>, NoError)
    /\ UNCHANGED <<providerSampleRate, converterKind>>

\* initialize() from the await on line 43 to the await on line 48
ResumeCreateDown ==
    \E t \in inflight :
        /\ t.pc = "create43"
        /\ downResampler' = t.pending
        /\ Suspend(t, AwaitCreate(t, "create48"))
        /\ UNCHANGED <<providerSampleRate, converterKind, upResampler,
                       downsampleBuffer, isInitialized>>

\* initialize() from the await on line 48 to its end; a handler that
\* awaits it (line 113 or 168) resumes in a later turn
ResumeCreateUp ==
    \E t \in inflight :
        /\ t.pc = "create48"
        /\ upResampler' = t.pending
        /\ isInitialized' = TRUE
        /\ IF t.op = "initialize"
           THEN Settle(t, t, <<>>, NoError)
           ELSE Suspend(t, [t EXCEPT !.pc = "initialize113"])
        /\ UNCHANGED <<providerSampleRate, converterKind, downResampler,
                       downsampleBuffer>>

\* a handler from its `await this.initialize()` on
ResumeInitialized ==
    \E t \in inflight :
        /\ t.pc = "initialize113"
        /\ IF t.op = "handleDownsampleChunk"
           THEN DownBody(t, t)
           ELSE UpBody(t, t)
        /\ UNCHANGED <<providerSampleRate, converterKind, downResampler,
                       upResampler, isInitialized>>

\* handleDownsampleChunk from the await on line 136: the rest of the pass
\* (lines 137-150), then on from the loop test
ResumeSimpleDown ==
    \E t \in inflight :
        /\ t.pc = "simple136"
        /\ t.passes < MaxPasses
        /\ LET threshold ==
                   getBufferSizes(providerSampleRate).downsampleThreshold
               st == DownPass(t.combinedBuffer,
                              LoopState(t.processingOffset, t.outputChunks,
                                        downsampleBuffer, <<>>, NoError),
                              TRUE, threshold, t.pending, converterKind,
                              providerSampleRate, 0)
           IN  DownFrom(t,
                        [t EXCEPT !.processingOffset = st.processingOffset,
                                  !.outputChunks = st.outputChunks,
                                  !.passes = @ + 1],
                        st.buffer)
        /\ UNCHANGED <<providerSampleRate, converterKind, downResampler,
                       upResampler, isInitialized>>

\* flushDownsampleRemainder from the await on line 205 to its end
ResumeSimpleFlush ==
    \E t \in inflight :
        /\ t.pc = "simple205"
        /\ LET st == FlushBody(Some(t.combinedBuffer), TRUE, t.pending,
                               converterKind, providerSampleRate, 0)
           IN  /\ downsampleBuffer' = st.buffer
               /\ Settle(t, [t EXCEPT !.passes = 1], st.outputChunks, st.err)
        /\ UNCHANGED <<providerSampleRate, converterKind, downResampler,
                       upResampler, isInitialized>>

NextAsync ==
    \/ BeginInitialize
    \/ BeginHandleDownsampleChunk
    \/ BeginHandleUpsampleChunk
    \/ BeginFlushDownsampleRemainder
    \/ DestroyNow
    \/ ResumeCreateDown
    \/ ResumeCreateUp
    \/ ResumeInitialized
    \/ ResumeSimpleDown
    \/ ResumeSimpleFlush

SpecAsync == InitAsync /\ [][NextAsync]_vars

\* no destroy() has run
NeverDestroyed(h) == \A i \in 1..Len(h) : h[i].op # "destroy"

(* C17: when initialize(), handleDownsampleChunk and handleUpsampleChunk   *)
(* are started on an uninitialized instance and their initializations      *)
(* overlap at the awaits on create(), one handle is created per direction  *)
(* and no handle that was assigned is replaced.                            *)
C17_NoDuplicateHandles ==
    [][NeverDestroyed(history') =>
         /\ TotalCreated' <= 2
         /\ downResampler # NullHandle => downResampler' = downResampler
         /\ upResampler # NullHandle => upResampler' = upResampler]_vars


----------------------------------------------------------------------------
\* the state destroy() leaves (lines 232-235)
Destroyed ==
    /\ downsampleBuffer = destroy.downsampleBuffer
    /\ downResampler = destroy.downResampler
    /\ upResampler = destroy.upResampler
    /\ isInitialized = destroy.isInitialized

\* the last call of h is one that destroy() number d of h found suspended,
\* and every call settled since was suspended then as well
SettledAfterDestroy(h, d) ==
    /\ d < Len(h)
    /\ h[d].op = "destroy"
    /\ \A i \in (d + 1)..Len(h) :
         /\ h[i].op \in {"initialize", "handleDownsampleChunk"}
         /\ h[i].begun < d

(* C18: if destroy() runs while initialize() or handleDownsampleChunk      *)
(* calls are suspended at an await, and nothing else is called, then once  *)
(* those calls have resumed and settled the instance is still destroyed    *)
(* (no residual, no handles, not initialized) and none of them has         *)
(* dereferenced a released handle.                                         *)
C18_DestroyIsFinal ==
    \A d \in 1..Len(history) :
        (inflight = {} /\ SettledAfterDestroy(history, d)) =>
            /\ Destroyed
            /\ \A i \in (d + 1)..Len(history) : history[i].err # TypeError

----------------------------------------------------------------------------
(* C19: for every positive provider rate a handleDownsampleChunk call      *)
(* ends after finitely many passes: every pass of its loop moves the       *)
(* processing offset forward.                                              *)
C19_OffsetIncreases ==
    [][\A t \in inflight, u \in inflight' :
          (t.id = u.id /\ t.op = "handleDownsampleChunk"
             /\ u.passes > t.passes)
          => u.processingOffset > t.processingOffset]_vars


----------------------------------------------------------------------------
(* C20: when calls do not overlap, in any order and with converter         *)
(* failures, a non-empty residual buffer implies that the provider->client *)
(* converter handle exists, so that flushDownsampleRemainder, which does   *)
(* no lazy initialization, never dereferences a missing handle.            *)
C20_ResidualImpliesHandle ==
    /\ ~NoResidual(downsampleBuffer) => downResampler # NullHandle
    /\ (history # <<>> /\ IsFlush(Last)) => Last.err # TypeError

\* a call failed in its second pass and left a residual, and the flush
\* after it converted that residual
C20_Witness ==
    /\ Len(history) >= 2
    /\ IsDown(history[Len(history) - 1])
    /\ history[Len(history) - 1].err = ConversionFailure
    /\ Len(history[Len(history) - 1].conv) >= 2
    /\ IsFlush(Last) /\ Last.err = NoError /\ Last.conv # <<>>
    /\ Last.conv[1].handle = downResampler
    /\ downResampler # NullHandle

============================================================================
